---- MODULE Spec2Model ----
(***************************************************************************)
(* GeneratedFileDecorationProvider (src/src/generatedFileDecorationProvider *)
(* .ts): the classification cache, the rule fields loaded by loadConfig,    *)
(* and the asynchronous checkAndCache calls with their suspension points    *)
(* (git check-attr callback, readFile, open, read, close).                  *)
(*                                                                         *)
(* Text is a sequence of one-character strings.  Node runs the provider on  *)
(* one thread: a handler runs to its next real I/O wait without             *)
(* interleaving, so every action below is one such run-to-suspension step.  *)
(***************************************************************************)
EXTENDS Integers, Sequences, FiniteSets, Bags, TLC

\* ------------------------------------------------------------------ bounds

\* checkAndCache calls that may be suspended at an I/O wait at the same time
MaxInflight == 2

\* ------------------------------------------------------- program constants

DefaultMaxSearchLines == 5
DefaultMaxSearchChars == 1024

NL == "\n"

\* ------------------------------------------------------------ text helpers

Min(a, b) == IF a < b THEN a ELSE b

\* s.startsWith(sep) at position i (1-based)
HasAt(s, sep, i) ==
    /\ i + Len(sep) - 1 <= Len(s)
    /\ \A k \in 1..Len(sep) : s[i + k - 1] = sep[k]

\* String.prototype.split(sep) for a non-empty separator
RECURSIVE SplitFrom(_, _, _, _)
SplitFrom(s, sep, i, cur) ==
    IF i > Len(s) THEN <<cur>>
    ELSE IF HasAt(s, sep, i)
         THEN <<cur>> \o SplitFrom(s, sep, i + Len(sep), <<>>)
         ELSE SplitFrom(s, sep, i + 1, Append(cur, s[i]))

Split(s, sep) == SplitFrom(s, sep, 1, <<>>)

\* Array.prototype.join(sep)
RECURSIVE Join(_, _)
Join(parts, sep) ==
    IF Len(parts) = 0 THEN <<>>
    ELSE IF Len(parts) = 1 THEN parts[1]
    ELSE parts[1] \o sep \o Join(Tail(parts), sep)

IsSpace(c) == c \in {" ", "\t", "\r", NL}

\* String.prototype.trim()
RECURSIVE TrimLeft(_)
TrimLeft(s) ==
    IF Len(s) > 0 /\ IsSpace(s[1]) THEN TrimLeft(Tail(s)) ELSE s

RECURSIVE TrimRight(_)
TrimRight(s) ==
    IF Len(s) > 0 /\ IsSpace(s[Len(s)])
    THEN TrimRight(SubSeq(s, 1, Len(s) - 1))
    ELSE s

Trim(s) == TrimRight(TrimLeft(s))

\* Array.prototype.slice(0, n) for n >= 0
Slice0(seq, n) == SubSeq(seq, 1, Min(n, Len(seq)))

\* Array.prototype.includes
Includes(seq, x) == \E i \in 1..Len(seq) : seq[i] = x

\* ----------------------------------------------------------------- RegExp
\* The fragment of the RegExp syntax that the modelled pattern strings use:
\* a literal character, "." (any character but a line break), a postfix "*",
\* and "[" which, with no "]" in the alphabet, is an unterminated class and
\* makes the constructor throw, as does a "*" with nothing to repeat.

RECURSIVE CompileFrom(_, _, _)
CompileFrom(src, i, acc) ==
    IF i > Len(src) THEN [ok |-> TRUE, toks |-> acc]
    ELSE IF src[i] = "[" \/ src[i] = "*" THEN [ok |-> FALSE, toks |-> <<>>]
    ELSE IF i < Len(src) /\ src[i + 1] = "*"
         THEN IF i + 1 < Len(src) /\ src[i + 2] = "*"
              THEN [ok |-> FALSE, toks |-> <<>>]
              ELSE CompileFrom(src, i + 2,
                       Append(acc, [c |-> src[i], any |-> src[i] = ".", star |-> TRUE]))
         ELSE CompileFrom(src, i + 1,
                  Append(acc, [c |-> src[i], any |-> src[i] = ".", star |-> FALSE]))

\* new RegExp(src): ok = FALSE when the constructor throws a SyntaxError
NewRegExp(src) == CompileFrom(src, 1, <<>>)

TokMatch(tok, ch) == IF tok.any THEN ch \notin {NL, "\r"} ELSE ch = tok.c

\* toks[i..] matches some prefix of s[j..]
RECURSIVE MatchHere(_, _, _, _)
MatchHere(toks, i, s, j) ==
    IF i > Len(toks) THEN TRUE
    ELSE IF toks[i].star
         THEN \E k \in 0..(Len(s) - j + 1) :
                 /\ \A m \in j..(j + k - 1) : TokMatch(toks[i], s[m])
                 /\ MatchHere(toks, i + 1, s, j + k)
         ELSE /\ j <= Len(s)
              /\ TokMatch(toks[i], s[j])
              /\ MatchHere(toks, i + 1, s, j + 1)

\* RegExp.prototype.test without flags: an unanchored search
RegexTest(regex, s) == \E j \in 1..(Len(s) + 1) : MatchHere(regex.toks, 1, s, j)

\* ------------------------------------------------------------ identities
\* A vscode.Uri with what the host answers for it: scheme, fsPath, and the
\* fsPath of vscode.workspace.getWorkspaceFolder(uri) when there is one
\* (the record has no "folder" field when the host answers undefined).

UriIn   == [scheme |-> "file", fsPath |-> <<"/", "w", "/", "g", ".", "t">>,
            folder |-> <<"/", "w">>]
UriOut  == [scheme |-> "file", fsPath |-> <<"/", "o", "/", "h", ".", "t">>]
UriHttp == [scheme |-> "http", fsPath |-> <<"/", "x">>]

Uris == {UriIn, UriOut, UriHttp}
FileUris == {u \in Uris : u.scheme = "file"}

\* uri.toString(): the cache key
UriToString(u) == <<u.scheme, ":", u.fsPath>>

HasWorkspaceFolder(u) == "folder" \in DOMAIN u

\* path.relative(from, to) for a path below the folder
PathRelative(from, to) == SubSeq(to, Len(from) + 2, Len(to))

\* ------------------------------------------------------------ environment
\* What vscode.workspace.getConfiguration('autodetectGenerated') may hold when
\* loadConfig reads it.  A key the configuration does not define is absent
\* from the record (config.get returns undefined).

Marker == <<"@", "g">>

RawConfigs == <<
    \* the defaults of the test fixture: one content pattern, one attribute
    [regexPatterns |-> <<Marker>>, gitAttributes |-> <<<<"g">>>>],
    \* nothing configured
    [excludePatterns |-> <<>>],
    \* exclusions: the first matches the absolute path of UriIn but not its
    \* relative path, the second matches UriIn
    [regexPatterns |-> <<Marker>>, gitAttributes |-> <<<<"g">>>>,
     excludePatterns |-> <<<<"w", "/", "*">>, <<"g", ".", "?">>>>],
    \* an exclusion pattern that is no regular expression, before one that
    \* matches both files
    [excludePatterns |-> <<<<"[">>, <<"*", ".", "t">>>>],
    \* content only, an invalid content pattern, small bounds
    [regexPatterns |-> <<<<"[">>, Marker>>, gitAttributes |-> <<>>,
     maxSearchLines |-> 1, maxSearchChars |-> 3],
    \* content only, unbounded
    [regexPatterns |-> <<Marker>>, maxSearchLines |-> 0, maxSearchChars |-> 0]
>>

ConfigIds == DOMAIN RawConfigs

\* What the callback of cp.execFile('git', ['check-attr', ...]) may be given
GitOutcomes == {
    [err |-> TRUE, stdout |-> <<>>],
    [err |-> FALSE, stdout |-> <<"f", ":", " ", "g", ":", " ", "s", "e", "t", NL>>],
    [err |-> FALSE, stdout |-> <<"f", ":", " ", "g", ":", " ", "u", "n", "s", "e", "t", NL>>],
    [err |-> FALSE, stdout |-> <<"x", ":", " ", "y", NL,
                                 "f", ":", " ", "g", ":", " ", "t", "r", "u", "e", NL>>]
}

\* What a file may hold when it is read
Contents == {
    <<"@", "g", NL, "x">>,
    <<"x", NL, "@", "g">>
}

\* ------------------------------------------------------------- loadConfig

Get(raw, key, dflt) == IF key \in DOMAIN raw THEN raw[key] ELSE dflt

\* a reduce that a pattern that does not compile ends
CompilePatterns_StopsAtFirstBad(ps) ==
    LET bad == {i \in 1..Len(ps) : ~NewRegExp(ps[i]).ok}
        n == IF bad = {} THEN Len(ps)
             ELSE (CHOOSE i \in bad : \A j \in bad : i <= j) - 1
    IN  [i \in 1..n |-> NewRegExp(ps[i])]

\* the reduce of loadConfig: the patterns that compile, in order
RECURSIVE CompilePatterns(_)
CompilePatterns(ps) ==
    IF Len(ps) = 0 THEN <<>>
    ELSE LET r == NewRegExp(ps[1])
         IN  IF r.ok THEN <<r>> \o CompilePatterns(Tail(ps))
             ELSE CompilePatterns(Tail(ps))

\* the console.error calls of the reduce: the pattern each one names
RECURSIVE Diagnostics(_)
Diagnostics(ps) ==
    IF Len(ps) = 0 THEN <<>>
    ELSE (IF NewRegExp(ps[1]).ok THEN <<>> ELSE <<ps[1]>>)
         \o Diagnostics(Tail(ps))

\* typeof config.get(key) for a numeric key.  A configuration holds a number
\* under the key itself; a value that is no number is given by its type in
\* the field typeof: "string" (a string that is no numeral) or "boolean"
\* (false).
TypeOf(raw, key) ==
    IF key \in DOMAIN raw THEN "number"
    ELSE IF "typeof" \in DOMAIN raw /\ key \in DOMAIN raw.typeof THEN raw.typeof[key]
    ELSE "undefined"

\* config.get<number>(key) ?? dflt: only undefined gives way to the default
GetNumber(raw, key, dflt) ==
    IF TypeOf(raw, key) = "undefined" THEN [type |-> "number", num |-> dflt]
    ELSE IF TypeOf(raw, key) = "number" THEN [type |-> "number", num |-> raw[key]]
    ELSE [type |-> TypeOf(raw, key), num |-> 0]

\* the fields loadConfig assigns from the configuration raw
LoadedRules(raw) ==
    [regexPatterns   |-> CompilePatterns(Get(raw, "regexPatterns", <<>>)),
     gitAttributes   |-> Get(raw, "gitAttributes", <<>>),
     excludePatterns |-> Get(raw, "excludePatterns", <<>>),
     maxSearchLines  |-> GetNumber(raw, "maxSearchLines", DefaultMaxSearchLines).num,
     maxSearchChars  |-> GetNumber(raw, "maxSearchChars", DefaultMaxSearchChars).num,
     boundTypes      |->
         [lines |-> GetNumber(raw, "maxSearchLines", DefaultMaxSearchLines).type,
          chars |-> GetNumber(raw, "maxSearchChars", DefaultMaxSearchChars).type]]

\* ---------------------------------------------------------------- checkFile

\* a translation of '*' alone: pattern.replace(/\*/g, '.*')
RECURSIVE WildcardToRegex_StarOnly(_)
WildcardToRegex_StarOnly(p) ==
    IF Len(p) = 0 THEN <<>>
    ELSE (IF p[1] = "*" THEN <<".", "*">> ELSE <<p[1]>>)
         \o WildcardToRegex_StarOnly(Tail(p))

\* pattern.replace(/\*/g, '.*').replace(/\?/g, '.')
RECURSIVE WildcardToRegex(_)
WildcardToRegex(p) ==
    IF Len(p) = 0 THEN <<>>
    ELSE (IF p[1] = "*" THEN <<".", "*">>
          ELSE IF p[1] = "?" THEN <<".">>
          ELSE <<p[1]>>) \o WildcardToRegex(Tail(p))

RelativePath(u) ==
    IF HasWorkspaceFolder(u) THEN PathRelative(u.folder, u.fsPath) ELSE u.fsPath

\* the loop over excludePatterns: "throw" when new RegExp throws, "excluded"
\* at the first pattern that matches, "pass" when the loop ends
RECURSIVE ExcludeLoop(_, _)
ExcludeLoop(patterns, rel) ==
    IF Len(patterns) = 0 THEN "pass"
    ELSE LET regex == NewRegExp(WildcardToRegex(patterns[1]))
         IN  IF ~regex.ok THEN "throw"
             ELSE IF RegexTest(regex, rel) THEN "excluded"
             ELSE ExcludeLoop(Tail(patterns), rel)

ExclusionCheck(patterns, u) ==
    IF Len(patterns) > 0 THEN ExcludeLoop(patterns, RelativePath(u)) ELSE "pass"

\* -------------------------------------------------------- checkGitAttributes

Truthy == {<<"s", "e", "t">>, <<"t", "r", "u", "e">>}

LineMatches(keys, line) ==
    LET parts == Split(line, <<":", " ">>)
    IN  /\ Len(parts) >= 3
        /\ Includes(keys, Trim(parts[2]))
        /\ Trim(parts[3]) \in Truthy

\* a loop over the lines that ends at the first line of fewer than 3 parts
GitVerdict_StopsAtMalformed(keys, outcome) ==
    IF outcome.err THEN FALSE
    ELSE LET lines == Split(outcome.stdout, <<NL>>)
         IN  \E i \in 1..Len(lines) :
                /\ LineMatches(keys, lines[i])
                /\ \A j \in 1..(i - 1) : Len(Split(lines[j], <<":", " ">>)) >= 3

\* what the execFile callback resolves the promise with
GitVerdict(keys, outcome) ==
    IF outcome.err THEN FALSE
    ELSE LET lines == Split(outcome.stdout, <<NL>>)
         IN  \E i \in 1..Len(lines) : LineMatches(keys, lines[i])

\* -------------------------------------------------------------- checkContent

\* a text that is never cut to lines
TruncateLines_NoCut(text, maxLines) == text

\* lines.slice(0, maxSearchLines).join('\n') when maxSearchLines > 0
TruncateLines(text, maxLines) ==
    IF maxLines > 0 THEN Join(Slice0(Split(text, <<NL>>), maxLines), <<NL>>)
    ELSE text

\* the loop over regexPatterns
AnyPatternMatches(patterns, text) ==
    \E i \in 1..Len(patterns) : RegexTest(patterns[i], text)

ContentVerdict(patterns, text, maxLines) ==
    AnyPatternMatches(patterns, TruncateLines(text, maxLines))

\* buffer.slice(0, bytesRead) after fd.read(buffer, 0, size, 0) of a file
\* that holds content: bytesRead is the smaller of size and the file length
BytesRead(content, size) == Slice0(content, size)

\* A file is a sequence of bytes.  An ASCII byte is written as its character;
\* LeadByte and TrailByte are the two bytes of one two-byte UTF-8 character.
LeadByte == "0xC3"
TrailByte == "0xA9"
TwoByteChar == "U+00E9"
ReplacementChar == "U+FFFD"

\* the three bytes of the byte order mark and the character they encode
Bom == <<"0xEF", "0xBB", "0xBF">>
BomChar == "U+FEFF"

\* toString('utf-8') of a buffer, and readFile(path, 'utf-8'): a complete
\* sequence decodes to its character (the byte order mark to U+FEFF, which
\* stays in the text), a sequence that is cut short and a byte that continues
\* nothing decode to U+FFFD
RECURSIVE DecodeUtf8(_)
DecodeUtf8(bytes) ==
    IF Len(bytes) = 0 THEN <<>>
    ELSE IF bytes[1] = LeadByte
         THEN IF Len(bytes) > 1 /\ bytes[2] = TrailByte
              THEN <<TwoByteChar>> \o DecodeUtf8(SubSeq(bytes, 3, Len(bytes)))
              ELSE <<ReplacementChar>> \o DecodeUtf8(Tail(bytes))
         ELSE IF bytes[1] = Bom[1]
         THEN IF Len(bytes) > 2 /\ bytes[2] = Bom[2] /\ bytes[3] = Bom[3]
              THEN <<BomChar>> \o DecodeUtf8(SubSeq(bytes, 4, Len(bytes)))
              ELSE IF Len(bytes) > 1 /\ bytes[2] = Bom[2]
              THEN <<ReplacementChar>> \o DecodeUtf8(SubSeq(bytes, 3, Len(bytes)))
              ELSE <<ReplacementChar>> \o DecodeUtf8(Tail(bytes))
         ELSE IF bytes[1] \in {TrailByte, Bom[2], Bom[3]}
              THEN <<ReplacementChar>> \o DecodeUtf8(Tail(bytes))
              ELSE <<bytes[1]>> \o DecodeUtf8(Tail(bytes))

\* new TextDecoder('utf-8').decode(bytes): as above, but a byte order mark at
\* the start is left out of the text (ignoreBOM is false)
TextDecode(bytes) ==
    LET text == DecodeUtf8(bytes)
    IN  IF Len(text) > 0 /\ text[1] = BomChar THEN Tail(text) ELSE text

\* lines 155-159 and 170-173: the text that checkContent tests for a file
\* that holds content, under maxSearchChars = chars > 0 and the line limit
FileScanText(content, chars, lines) ==
    TruncateLines(DecodeUtf8(BytesRead(content, chars)), lines)

\* lines 162-167 and 170-173: the text that checkContent tests for a source
\* that is no file and whose payload is content
PayloadScanText(content, chars, lines) ==
    TruncateLines(TextDecode(IF chars <= 0 THEN content ELSE Slice0(content, chars)),
                  lines)

\* -------------------------------------------------------------- Map (cache)
\* A JavaScript Map in insertion order: a sequence of [key, val] entries.

CacheIndex(c, k) == {i \in 1..Len(c) : c[i].key = k}
CacheHas(c, k) == CacheIndex(c, k) # {}
CacheGet(c, k) == c[CHOOSE i \in CacheIndex(c, k) : TRUE].val

\* a set that stores nothing
CacheSet_Skip(c, k, v) == c

\* Map.prototype.set: an existing key keeps its place
CacheSet(c, k, v) ==
    IF CacheHas(c, k)
    THEN [i \in 1..Len(c) |-> IF c[i].key = k THEN [key |-> k, val |-> v] ELSE c[i]]
    ELSE Append(c, [key |-> k, val |-> v])

\* Map.prototype.delete
CacheDelete(c, k) ==
    LET Other(e) == e.key # k IN SelectSeq(c, Other)

\* ------------------------------------------------------------------- state

VARIABLES
    regexPatterns,    \* this.regexPatterns: the compiled content patterns
    gitAttributes,    \* this.gitAttributes
    excludePatterns,  \* this.excludePatterns
    maxSearchLines,   \* this.maxSearchLines
    maxSearchChars,   \* this.maxSearchChars
    boundTypes,       \* typeof this.maxSearchLines and typeof this.maxSearchChars
                      \*   (the two fields above hold the number when it is
                      \*   "number", and 0 otherwise)
    cache,            \* this.cache
    calls,            \* the checkAndCache calls suspended at an I/O wait (a bag)
    last,             \* how the most recently settled checkAndCache call ended
    cfgId,            \* history: which configuration loadConfig read last
    done,             \* history: per file key, the values calls completed with
                      \*   since the key was last invalidated
    pend,             \* history: the latest invalidation that no checkAndCache
                      \*   on its key has followed yet: update(key), or a
                      \*   refresh that found key cached true
    activated,        \* extension: activate() has registered the syncReadOnly
                      \*   command (FALSE: the provider is used on its own)
    readonlyInclude,  \* extension: the keys of files.readonlyInclude as last
                      \*   written by updateReadOnlySettings
    handling,         \* extension: the uri for which the onDidChange/onDidCreate
                      \*   handler has called update and not yet checkAndCache
    unclosed,         \* a FileHandle that fs.promises.open gave is still open
                      \*   although checkContent has returned
    started           \* caller: how many checkAndCache calls a caller that
                      \*   makes a bounded number of them has made

rules == <<regexPatterns, gitAttributes, excludePatterns, maxSearchLines,
           maxSearchChars, boundTypes>>
ext == <<activated, readonlyInclude, handling>>
vars == <<regexPatterns, gitAttributes, excludePatterns, maxSearchLines,
          maxSearchChars, boundTypes, cache, calls, last, cfgId, done, pend,
          activated, readonlyInclude, handling, unclosed, started>>

NoUri == [scheme |-> "none"]

FileKeys == {UriToString(u) : u \in FileUris}

NoCall == [op |-> "none"]
NoPend == [kind |-> "none"]
PendUpdate(k) == [kind |-> "update", key |-> k]
PendReload(k) == [kind |-> "reload", key |-> k]

\* the suspended calls on the same key as u
CallsOn(bag, u) == {c \in BagToSet(bag) : UriToString(c.uri) = UriToString(u)}

\* -------------------------------------------------------- getGeneratedFiles

\* vscode.Uri.parse(uriStr) of a key made by uri.toString(), with what the host
\* answers for that uri
UriParse(k) == CHOOSE u \in Uris : UriToString(u) = k

\* the loop over this.cache.entries() from entry i on
RECURSIVE GeneratedFrom(_, _)
GeneratedFrom(c, i) ==
    IF i > Len(c) THEN <<>>
    ELSE (IF c[i].val THEN <<RelativePath(UriParse(c[i].key))>> ELSE <<>>)
         \o GeneratedFrom(c, i + 1)

\* a getGeneratedFiles without the test of the entry's value
getGeneratedFiles_AllEntries(c) ==
    [k \in 1..Len(c) |-> RelativePath(UriParse(c[k].key))]

\* getGeneratedFiles() on the cache c
getGeneratedFiles(c) == GeneratedFrom(c, 1)

\* updateReadOnlySettings(provider): the keys of the record it writes to
\* files.readonlyInclude
updateReadOnlySettings(c) ==
    LET generatedFiles == getGeneratedFiles(c)
    IN  {generatedFiles[i] : i \in 1..Len(generatedFiles)}

\* ------------------------------------------------------ loadConfig, refresh

\* the rule fields for each configuration of RawConfigs
Loaded == [id \in ConfigIds |-> LoadedRules(RawConfigs[id])]

\* loadConfig: assign the five fields from the configuration, clear the cache
loadConfig(id) ==
    LET r == Loaded[id]
    IN  /\ regexPatterns' = r.regexPatterns
        /\ gitAttributes' = r.gitAttributes
        /\ excludePatterns' = r.excludePatterns
        /\ maxSearchLines' = r.maxSearchLines
        /\ maxSearchChars' = r.maxSearchChars
        /\ boundTypes' = r.boundTypes
        /\ cache' = <<>>
        /\ cfgId' = id

Init ==
    /\ \E id \in ConfigIds :
          LET r == Loaded[id]
          IN  /\ regexPatterns = r.regexPatterns
              /\ gitAttributes = r.gitAttributes
              /\ excludePatterns = r.excludePatterns
              /\ maxSearchLines = r.maxSearchLines
              /\ maxSearchChars = r.maxSearchChars
              /\ boundTypes = r.boundTypes
              /\ cfgId = id
    /\ cache = <<>>
    /\ calls = EmptyBag
    /\ last = NoCall
    /\ done = [k \in FileKeys |-> {}]
    /\ pend = NoPend
    /\ activated = FALSE
    /\ readonlyInclude = {}
    /\ handling = NoUri
    /\ unclosed = FALSE
    /\ started = 0

\* history: every suspended call now runs under a replaced configuration
MarkOld(bag, id) ==
    IF id = cfgId THEN bag
    ELSE LET S == BagToSet(bag)
             Aged(c) == [c EXCEPT !.old = TRUE]
         IN  [r \in {Aged(c) : c \in S} |->
                 LET from == {c \in S : Aged(c) = r}
                 IN  (IF r \in from THEN bag[r] ELSE 0)
                     + (IF [r EXCEPT !.old = FALSE] \in from /\ r.old
                        THEN bag[[r EXCEPT !.old = FALSE]] ELSE 0)]

\* refresh(), the configuration holding RawConfigs[id] when it runs
refresh(id) ==
    /\ loadConfig(id)
    /\ calls' = MarkOld(calls, id)
    /\ done' = [k \in FileKeys |-> {}]
    /\ pend' \in {IF pend.kind = "reload" THEN NoPend ELSE pend}
                \cup {PendReload(k) : k \in {j \in FileKeys :
                                  CacheHas(cache, j) /\ CacheGet(cache, j)}}
    /\ UNCHANGED <<last, unclosed, started>>

\* an update that empties the whole cache
update_ClearsAll(u) ==
    /\ cache' = <<>>
    /\ done' = [k \in FileKeys |-> IF k = UriToString(u) THEN {} ELSE done[k]]
    /\ pend' = IF u \in FileUris THEN PendUpdate(UriToString(u)) ELSE pend
    /\ UNCHANGED <<rules, cfgId, calls, last, unclosed, started>>

\* update(uri)
update(u) ==
    /\ cache' = CacheDelete(cache, UriToString(u))
    /\ done' = [k \in FileKeys |-> IF k = UriToString(u) THEN {} ELSE done[k]]
    /\ pend' = IF u \in FileUris THEN PendUpdate(UriToString(u)) ELSE pend
    /\ UNCHANGED <<rules, cfgId, calls, last, unclosed, started>>

\* ------------------------------------------------------------ checkAndCache
\* A call is a record: uri, pc (the wait it is suspended at: "git", "readFile",
\* "open", "read", "close"), size (the Buffer allocated after open), text (the
\* bytes read, before decoding) and old (history: refresh has replaced the
\* configuration the call started under).

\* no process is running for the call
NoExec == [file |-> "none"]

NewCall(u) ==
    [uri |-> u, pc |-> "start", old |-> FALSE, size |-> 0, text |-> <<>>,
     exec |-> NoExec]

Settled(outcome, result, hit, signals) ==
    [op |-> "check", outcome |-> outcome, result |-> result, hit |-> hit,
     signals |-> signals]

\* history: the call on key completed with value v
Completed(key, v) == [k \in FileKeys |-> IF k = key THEN done[k] \cup {v} ELSE done[k]]

\* the call waits for I/O: the handler returns to the event loop
Suspend(call, rest) ==
    /\ BagCardinality(rest) < MaxInflight
    /\ calls' = rest (+) SetToBag({call})
    /\ UNCHANGED <<rules, cache, last, cfgId, done, readonlyInclude>>

\* a completion that issues the syncReadOnly command whatever the verdict
Complete_AlwaysSignals(call, isGenerated, rest) ==
    /\ cache' = CacheSet(cache, UriToString(call.uri), isGenerated)
    /\ last' = Settled("resolved", isGenerated, FALSE, 1)
    /\ calls' = rest
    /\ done' = Completed(UriToString(call.uri), isGenerated)
    /\ readonlyInclude' = IF activated THEN updateReadOnlySettings(cache')
                          ELSE readonlyInclude
    /\ UNCHANGED <<rules, cfgId>>

\* a completion that issues the syncReadOnly command before cache.set
Complete_SignalsBeforeSet(call, isGenerated, rest) ==
    /\ cache' = CacheSet(cache, UriToString(call.uri), isGenerated)
    /\ last' = Settled("resolved", isGenerated, FALSE, IF isGenerated THEN 1 ELSE 0)
    /\ calls' = rest
    /\ done' = Completed(UriToString(call.uri), isGenerated)
    /\ readonlyInclude' = IF isGenerated /\ activated
                          THEN updateReadOnlySettings(cache)
                          ELSE readonlyInclude
    /\ UNCHANGED <<rules, cfgId>>

\* lines 77-82: checkFile resolved with isGenerated; cache.set, the
\* syncReadOnly command when true (its handler, when the extension registered
\* one, runs updateReadOnlySettings within executeCommand), return isGenerated
Complete(call, isGenerated, rest) ==
    /\ cache' = CacheSet(cache, UriToString(call.uri), isGenerated)
    /\ last' = Settled("resolved", isGenerated, FALSE, IF isGenerated THEN 1 ELSE 0)
    /\ calls' = rest
    /\ done' = Completed(UriToString(call.uri), isGenerated)
    /\ readonlyInclude' = IF isGenerated /\ activated
                          THEN updateReadOnlySettings(cache')
                          ELSE readonlyInclude
    /\ UNCHANGED <<rules, cfgId>>

\* an exception leaves checkFile: the await at line 76 throws, checkAndCache
\* rejects before cache.set
Reject(call, rest) ==
    /\ last' = Settled("rejected", FALSE, FALSE, 0)
    /\ calls' = rest
    /\ UNCHANGED <<rules, cache, cfgId, done, readonlyInclude>>

\* this.maxSearchChars <= 0: a string that is no numeral compares false,
\* false compares as 0
CharsAtMostZero ==
    \/ boundTypes.chars = "number" /\ maxSearchChars <= 0
    \/ boundTypes.chars = "boolean"

\* the count of lines kept, 0 for none cut: this.maxSearchLines > 0 is false
\* for a string that is no numeral and for false
LineLimit == IF boundTypes.lines = "number" THEN maxSearchLines ELSE 0

\* a checkContent that takes the bounded read whatever maxSearchChars is
StartContent_AlwaysBounded(call, rest) ==
    IF Len(regexPatterns) = 0
    THEN Complete(call, FALSE, rest)
    ELSE Suspend([call EXCEPT !.pc = "open", !.exec = NoExec], rest)

\* checkContent up to its first wait
StartContent(call, rest) ==
    IF Len(regexPatterns) = 0
    THEN Complete(call, FALSE, rest)
    ELSE Suspend([call EXCEPT !.pc = IF CharsAtMostZero THEN "readFile" ELSE "open",
                              !.exec = NoExec],
                 rest)

\* path.dirname of an absolute path
PathDirname(p) ==
    LET i == CHOOSE j \in 1..Len(p) :
                 p[j] = "/" /\ \A k \in (j + 1)..Len(p) : p[k] # "/"
    IN  IF i = 1 THEN <<"/">> ELSE SubSeq(p, 1, i - 1)

\* the timeout option of cp.execFile, in milliseconds
ExecTimeout == 1000

\* an argument given as a literal
CheckAttrArg == <<"check-attr">>
SeparatorArg == <<"--">>

\* a call of cp.execFile without the '--' before the path
ExecFile_NoSeparator(u) ==
    [file |-> "git",
     args |-> <<CheckAttrArg>> \o gitAttributes \o <<u.fsPath>>,
     cwd |-> IF HasWorkspaceFolder(u) THEN u.folder ELSE PathDirname(u.fsPath),
     timeout |-> ExecTimeout]

\* lines 114-120: cp.execFile('git', args, { cwd: cwd, timeout: 1000 }, ...)
ExecFile(u) ==
    [file |-> "git",
     args |-> <<CheckAttrArg>> \o gitAttributes \o <<SeparatorArg, u.fsPath>>,
     cwd |-> IF HasWorkspaceFolder(u) THEN u.folder ELSE PathDirname(u.fsPath),
     timeout |-> ExecTimeout]

\* checkGitAttributes up to cp.execFile; checkFile goes on to checkContent
\* when it resolves false
StartGit(call, rest) ==
    IF Len(gitAttributes) = 0
    THEN StartContent(call, rest)
    ELSE Suspend([call EXCEPT !.pc = "git", !.exec = ExecFile(call.uri)], rest)

\* checkFile up to its first wait
StartFile(call, rest) ==
    LET excl == ExclusionCheck(excludePatterns, call.uri)
    IN  IF excl = "throw" THEN Reject(call, rest)
        ELSE IF excl = "excluded" THEN Complete(call, FALSE, rest)
        ELSE StartGit(call, rest)

\* a checkAndCache without the scheme test of lines 67-69
checkAndCache_NoSchemeGuard(u) ==
    /\ pend' = IF pend # NoPend /\ pend.key = UriToString(u) THEN NoPend ELSE pend
    /\ UNCHANGED unclosed
    /\ IF CacheHas(cache, UriToString(u))
       THEN /\ last' = Settled("resolved", CacheGet(cache, UriToString(u)), TRUE, 0)
            /\ done' = Completed(UriToString(u), CacheGet(cache, UriToString(u)))
            /\ UNCHANGED <<rules, cache, calls, cfgId, readonlyInclude>>
       ELSE StartFile(NewCall(u), calls)

\* checkAndCache(uri), from the call to its first wait or to its return
checkAndCache(u) ==
    /\ pend' = IF pend # NoPend /\ pend.key = UriToString(u) THEN NoPend ELSE pend
    /\ UNCHANGED unclosed
    /\ IF u.scheme # "file"
       THEN /\ last' = Settled("resolved", FALSE, FALSE, 0)
            /\ UNCHANGED <<rules, cache, calls, cfgId, done, readonlyInclude>>
       ELSE IF CacheHas(cache, UriToString(u))
       THEN /\ last' = Settled("resolved", CacheGet(cache, UriToString(u)), TRUE, 0)
            /\ done' = Completed(UriToString(u), CacheGet(cache, UriToString(u)))
            /\ UNCHANGED <<rules, cache, calls, cfgId, readonlyInclude>>
       ELSE StartFile(NewCall(u), calls)

\* a callback that goes on to checkContent whatever the query reported
GitCallback_NoShortCircuit(call, outcome) ==
    /\ call.pc = "git"
    /\ UNCHANGED <<pend, unclosed, started>>
    /\ StartContent(call, calls (-) SetToBag({call}))

\* a callback that returns on an error without resolving the promise
GitCallback_NoResolveOnError(call, outcome) ==
    /\ call.pc = "git"
    /\ UNCHANGED <<pend, unclosed, started>>
    /\ IF outcome.err
       THEN Suspend([call EXCEPT !.pc = "never"], calls (-) SetToBag({call}))
       ELSE IF GitVerdict(gitAttributes, outcome)
       THEN Complete(call, TRUE, calls (-) SetToBag({call}))
       ELSE StartContent(call, calls (-) SetToBag({call}))

\* the callback of cp.execFile runs with (err, stdout) = outcome
GitCallback(call, outcome) ==
    /\ call.pc = "git"
    /\ UNCHANGED <<pend, unclosed, started>>
    /\ IF GitVerdict(gitAttributes, outcome)
       THEN Complete(call, TRUE, calls (-) SetToBag({call}))
       ELSE StartContent(call, calls (-) SetToBag({call}))

\* fs.promises.readFile settles: rejected, or fulfilled with the file content
ReadFileDone(call, ok, content) ==
    /\ call.pc = "readFile"
    /\ UNCHANGED <<pend, unclosed, started>>
    /\ Complete(call,
                ok /\ ContentVerdict(regexPatterns, DecodeUtf8(content), LineLimit),
                calls (-) SetToBag({call}))

\* an open whose failure leaves checkContent as an exception
OpenDone_Throws(call, ok) ==
    /\ call.pc = "open"
    /\ UNCHANGED <<pend, started>>
    /\ IF ok /\ boundTypes.chars = "number" /\ maxSearchChars >= 0
       THEN /\ Suspend([call EXCEPT !.pc = "read", !.size = maxSearchChars],
                       calls (-) SetToBag({call}))
            /\ UNCHANGED unclosed
       ELSE /\ Reject(call, calls (-) SetToBag({call}))
            /\ unclosed' = (unclosed \/ ok)

\* fs.promises.open settles; on success Buffer.alloc(this.maxSearchChars),
\* which throws for a size that is no number or is negative (the catch of
\* line 180 then returns false, past fd.close), and
\* fd.read(buffer, 0, this.maxSearchChars, 0)
OpenDone(call, ok) ==
    /\ call.pc = "open"
    /\ UNCHANGED <<pend, started>>
    /\ IF ok /\ boundTypes.chars = "number" /\ maxSearchChars >= 0
       THEN /\ Suspend([call EXCEPT !.pc = "read", !.size = maxSearchChars],
                       calls (-) SetToBag({call}))
            /\ UNCHANGED unclosed
       ELSE /\ Complete(call, FALSE, calls (-) SetToBag({call}))
            /\ unclosed' = (unclosed \/ ok)

\* fd.read settles; on success fd.close() is called, on failure the catch of
\* line 180 returns false, past fd.close
ReadDone(call, ok, content) ==
    /\ call.pc = "read"
    /\ UNCHANGED <<pend, started>>
    /\ IF ok
       THEN /\ Suspend([call EXCEPT !.pc = "close", !.size = 0,
                                    !.text = BytesRead(content, call.size)],
                       calls (-) SetToBag({call}))
            /\ UNCHANGED unclosed
       ELSE /\ Complete(call, FALSE, calls (-) SetToBag({call}))
            /\ unclosed' = TRUE

\* fd.close settles; on success the text is cut to lines and tested
CloseDone(call, ok) ==
    /\ call.pc = "close"
    /\ UNCHANGED <<pend, unclosed, started>>
    /\ Complete(call,
                ok /\ ContentVerdict(regexPatterns, DecodeUtf8(call.text), LineLimit),
                calls (-) SetToBag({call}))

\* ------------------------------------------------------------ specification

\* The provider under any caller of its public methods.
Refresh == \E id \in ConfigIds : refresh(id) /\ UNCHANGED ext
Update == \E u \in Uris : update(u) /\ UNCHANGED ext
CheckAndCache == \E u \in Uris : checkAndCache(u) /\ UNCHANGED started
Git ==
    \E call \in BagToSet(calls) :
        \/ \E o \in {g \in GitOutcomes : g.err} : GitCallback(call, o)
        \/ \E o \in {g \in GitOutcomes : ~g.err} : GitCallback(call, o)
ReadFile ==
    \E call \in BagToSet(calls) :
        \/ ReadFileDone(call, FALSE, <<>>)
        \/ \E content \in Contents : ReadFileDone(call, TRUE, content)
Open == \E call \in BagToSet(calls) : \E ok \in BOOLEAN : OpenDone(call, ok)
Read ==
    \E call \in BagToSet(calls) :
        \/ \E content \in Contents : ReadDone(call, TRUE, content)
        \/ ReadDone(call, FALSE, <<>>)
Close == \E call \in BagToSet(calls) : \E ok \in BOOLEAN : CloseDone(call, ok)

Next ==
    \/ Refresh
    \/ Update
    \/ CheckAndCache /\ UNCHANGED <<activated, handling>>
    \/ Git /\ UNCHANGED <<activated, handling>>
    \/ ReadFile /\ UNCHANGED <<activated, handling>>
    \/ Open /\ UNCHANGED <<activated, handling>>
    \/ Read /\ UNCHANGED <<activated, handling>>
    \/ Close /\ UNCHANGED <<activated, handling>>

Spec == Init /\ [][Next]_vars

\* ------------------------------------------- one classification, any rules
\* A provider constructed under one of many configurations classifies one
\* identity; git and the file system answer from larger sets than above.

MaxPatterns == 3

\* configured regexPatterns entries: two that compile and one that does not
PatternStrings == {Marker, <<"x", ".", "@">>, <<"[">>}

SeqsUpTo(S, n) == UNION {[1..k -> S] : k \in 0..n}

\* the configurations: any list of pattern strings under the default bounds;
\* one pattern under small bounds; attributes only
CheckConfigs ==
    {[regexPatterns |-> ps] : ps \in SeqsUpTo(PatternStrings, MaxPatterns)}
    \cup {[regexPatterns |-> <<p>>, maxSearchLines |-> m, maxSearchChars |-> n] :
             p \in {Marker, <<"x", ".", "@">>}, m \in 0..2, n \in {0, 1, 2, 3, 4, 6}}
    \cup {[gitAttributes |-> ks] :
             ks \in {<<<<"g">>>>, <<<<"h">>, <<"g">>>>, <<<<"h">>>>}}

\* what a file may hold, as bytes
ScanContents == {
    <<>>,
    <<"@", "g", NL, "x">>,
    <<"x", NL, "@", "g">>,
    <<"x", NL, "y", NL, "@", "g">>,
    <<"x", "y", "@", "g">>,
    <<LeadByte, TrailByte, "@", "g">>,
    <<"x", LeadByte, TrailByte>>,
    Bom \o <<"@", "g">>
}

\* a line of git check-attr output as its ': '-separated fields
GitLines == {
    <<<<"f">>, <<"g">>, <<"s", "e", "t">>>>,
    <<<<"f">>, <<"g">>, <<"t", "r", "u", "e">>>>,
    <<<<"f">>, <<"g">>, <<"u", "n", "s", "e", "t">>>>,
    <<<<"f">>, <<"g">>, <<"f", "a", "l", "s", "e">>>>,
    <<<<"f">>, <<"g">>, <<"u", "n", "s", "p", "e", "c", "i", "f", "i", "e", "d">>>>,
    <<<<"f">>, <<"h">>, <<"s", "e", "t">>>>,
    <<<<"f">>, <<"g">>, <<"s", "e", "t", "\r">>>>,
    <<<<"f">>, <<"g">>, <<"s", "e", "t">>, <<"z">>>>,
    <<<<"f">>, <<"g">>>>,
    <<<<"s", "e", "t">>>>
}

MaxGitLines == 2

\* stdout: the lines, each rendered 'field: field: ...', separated by '\n',
\* with or without a final '\n'
RenderLines(ls, final) ==
    LET Rendered == [i \in 1..Len(ls) |-> Join(ls[i], <<":", " ">>)]
    IN  Join(Rendered, <<NL>>) \o (IF final THEN <<NL>> ELSE <<>>)

GitLineSeqs == SeqsUpTo(GitLines, MaxGitLines) \ {<<>>}

\* the provider is constructed under the configuration raw
InitCheck ==
    /\ \E raw \in CheckConfigs :
          LET r == LoadedRules(raw)
          IN  /\ regexPatterns = r.regexPatterns
              /\ gitAttributes = r.gitAttributes
              /\ excludePatterns = r.excludePatterns
              /\ maxSearchLines = r.maxSearchLines
              /\ maxSearchChars = r.maxSearchChars
              /\ boundTypes = r.boundTypes
              /\ cfgId = raw
    /\ cache = <<>>
    /\ calls = EmptyBag
    /\ last = NoCall
    /\ done = [k \in FileKeys |-> {}]
    /\ pend = NoPend
    /\ activated = FALSE
    /\ readonlyInclude = {}
    /\ handling = NoUri
    /\ unclosed = FALSE
    /\ started = 0

\* the first classification after construction
CheckFirst ==
    /\ cache = <<>>
    /\ calls = EmptyBag
    /\ \E u \in Uris : checkAndCache(u)
    /\ UNCHANGED started

CheckGit ==
    \E call \in BagToSet(calls) :
        \/ \E ls \in GitLineSeqs : \E final \in BOOLEAN :
              GitCallback(call, [err |-> FALSE, stdout |-> RenderLines(ls, final)])
        \/ GitCallback(call, [err |-> TRUE, stdout |-> <<>>])

CheckReadFile ==
    \E call \in BagToSet(calls) :
        \/ \E content \in ScanContents : ReadFileDone(call, TRUE, content)
        \/ ReadFileDone(call, FALSE, <<>>)

CheckRead ==
    \E call \in BagToSet(calls) :
        \/ \E content \in ScanContents : ReadDone(call, TRUE, content)
        \/ ReadDone(call, FALSE, <<>>)

NextCheck ==
    \/ CheckFirst /\ UNCHANGED <<activated, handling>>
    \/ CheckGit /\ UNCHANGED <<activated, handling>>
    \/ CheckReadFile /\ UNCHANGED <<activated, handling>>
    \/ Open /\ UNCHANGED <<activated, handling>>
    \/ CheckRead /\ UNCHANGED <<activated, handling>>
    \/ Close /\ UNCHANGED <<activated, handling>>

SpecCheck == InitCheck /\ [][NextCheck]_vars

\* ------------------------------------------ the provider in a fixed world
\* The provider under any caller, as in Spec, while no file and no answer of
\* git changes and no I/O fails: every query and read of a file gets the same
\* answer.

World ==
    [u \in FileUris |->
        IF u = UriIn
        THEN [git |-> [err |-> FALSE,
                       stdout |-> <<"f", ":", " ", "g", ":", " ", "s", "e", "t", NL>>],
              content |-> <<"x", NL, "@", "g">>]
        ELSE [git |-> [err |-> TRUE, stdout |-> <<>>],
              content |-> <<"@", "g", NL, "x">>]]

WorldGit == \E call \in BagToSet(calls) : GitCallback(call, World[call.uri].git)
WorldReadFile ==
    \E call \in BagToSet(calls) : ReadFileDone(call, TRUE, World[call.uri].content)
WorldOpen == \E call \in BagToSet(calls) : OpenDone(call, TRUE)
WorldRead ==
    \E call \in BagToSet(calls) : ReadDone(call, TRUE, World[call.uri].content)
WorldClose == \E call \in BagToSet(calls) : CloseDone(call, TRUE)

NextWorld ==
    \/ Refresh
    \/ Update
    \/ CheckAndCache /\ UNCHANGED <<activated, handling>>
    \/ WorldGit /\ UNCHANGED <<activated, handling>>
    \/ WorldReadFile /\ UNCHANGED <<activated, handling>>
    \/ WorldOpen /\ UNCHANGED <<activated, handling>>
    \/ WorldRead /\ UNCHANGED <<activated, handling>>
    \/ WorldClose /\ UNCHANGED <<activated, handling>>

SpecWorld == Init /\ [][NextWorld]_vars

\* ------------------------------------------- a caller of finitely many calls

\* how many checkAndCache calls the caller makes at most
MaxStarts == 3

\* the caller makes one more checkAndCache call
StartCheckAndCache ==
    /\ started < MaxStarts
    /\ \E u \in Uris : checkAndCache(u)
    /\ started' = started + 1

\* the event loop runs the continuation of a suspended call whose wait has
\* settled
Continue == Git \/ ReadFile \/ Open \/ Read \/ Close

NextLive ==
    \/ Refresh
    \/ Update
    \/ StartCheckAndCache /\ UNCHANGED <<activated, handling>>
    \/ Continue /\ UNCHANGED <<activated, handling>>

\* every wait settles (cp.execFile calls back, by its timeout at the latest;
\* open, read, close and readFile settle), and the event loop then runs the
\* continuation
SpecLive ==
    Init /\ [][NextLive]_vars
         /\ WF_vars(Continue /\ UNCHANGED <<activated, handling>>)

\* ------------------------------------ one classification, any exclusions

\* the longest exclusion pattern configured
MaxWildcardLen == 3

\* the symbols of an exclusion pattern: letters, the separator, the wildcards
WildcardSymbols == {"g", "t", "/", "*", "?"}

WildcardPatterns == SeqsUpTo(WildcardSymbols, MaxWildcardLen)

\* the configurations: one exclusion pattern, or two short ones, before an
\* attribute and a content pattern
ExcludeConfigs ==
    {[excludePatterns |-> ps, gitAttributes |-> <<<<"g">>>>,
      regexPatterns |-> <<Marker>>] :
        ps \in {<<p>> : p \in WildcardPatterns}
               \cup {<<p, q>> : p, q \in SeqsUpTo(WildcardSymbols, 1)}}

\* the files classified: in the workspace folder /w, and outside any folder
ExcludeUris ==
    {[scheme |-> "file", fsPath |-> <<"/", "w", "/">> \o rel, folder |-> <<"/", "w">>] :
        rel \in {<<"g">>, <<"g", "t">>, <<"t", "g">>, <<"g", "/", "t">>,
                 <<"t", "/", "g", "/", "t">>, <<"t", "t", "g">>}}
    \cup {[scheme |-> "file", fsPath |-> <<"/", "g">>],
          [scheme |-> "file", fsPath |-> <<"/", "t", "/", "t", "g">>]}

InitExclude ==
    /\ \E raw \in ExcludeConfigs :
          LET r == LoadedRules(raw)
          IN  /\ regexPatterns = r.regexPatterns
              /\ gitAttributes = r.gitAttributes
              /\ excludePatterns = r.excludePatterns
              /\ maxSearchLines = r.maxSearchLines
              /\ maxSearchChars = r.maxSearchChars
              /\ boundTypes = r.boundTypes
              /\ cfgId = raw
    /\ cache = <<>>
    /\ calls = EmptyBag
    /\ last = NoCall
    /\ done = [k \in FileKeys |-> {}]
    /\ pend = NoPend
    /\ activated = FALSE
    /\ readonlyInclude = {}
    /\ handling = NoUri
    /\ unclosed = FALSE
    /\ started = 0

\* the first classification after construction
ExcludeFirst ==
    /\ cache = <<>>
    /\ calls = EmptyBag
    /\ \E u \in ExcludeUris : checkAndCache(u)
    /\ UNCHANGED started

NextExclude ==
    \/ ExcludeFirst /\ UNCHANGED <<activated, handling>>
    \/ Git /\ UNCHANGED <<activated, handling>>
    \/ Open /\ UNCHANGED <<activated, handling>>
    \/ Read /\ UNCHANGED <<activated, handling>>
    \/ Close /\ UNCHANGED <<activated, handling>>

SpecExclude == InitExclude /\ [][NextExclude]_vars

\* ------------------------------------- one classification, any numeric bounds

\* the largest number configured for a bound
MaxBound == 2

\* what config.get may give for maxSearchLines or maxSearchChars: nothing, a
\* number, a string that is no numeral, false
JsBounds ==
    {[type |-> "undefined", num |-> 0], [type |-> "string", num |-> 0],
     [type |-> "boolean", num |-> 0]}
    \cup {[type |-> "number", num |-> n] : n \in 0..MaxBound}

\* the configuration with the values l and c for the two bounds
BoundsConfig(l, c) ==
    LET Number(key, v) == IF v.type = "number" THEN key :> v.num ELSE <<>>
        Other(key, v) == IF v.type \in {"string", "boolean"} THEN key :> v.type
                         ELSE <<>>
    IN  [regexPatterns |-> <<Marker>>,
         typeof |-> Other("maxSearchLines", l) @@ Other("maxSearchChars", c)]
        @@ Number("maxSearchLines", l) @@ Number("maxSearchChars", c)

LoadConfigs == {BoundsConfig(l, c) : l \in JsBounds, c \in JsBounds}

\* the provider is constructed under the configuration raw
InitLoad ==
    /\ \E raw \in LoadConfigs :
          LET r == LoadedRules(raw)
          IN  /\ regexPatterns = r.regexPatterns
              /\ gitAttributes = r.gitAttributes
              /\ excludePatterns = r.excludePatterns
              /\ maxSearchLines = r.maxSearchLines
              /\ maxSearchChars = r.maxSearchChars
              /\ boundTypes = r.boundTypes
              /\ cfgId = raw
    /\ cache = <<>>
    /\ calls = EmptyBag
    /\ last = NoCall
    /\ done = [k \in FileKeys |-> {}]
    /\ pend = NoPend
    /\ activated = FALSE
    /\ readonlyInclude = {}
    /\ handling = NoUri
    /\ unclosed = FALSE
    /\ started = 0

NextLoad ==
    \/ CheckFirst /\ UNCHANGED <<activated, handling>>
    \/ CheckReadFile /\ UNCHANGED <<activated, handling>>
    \/ Open /\ UNCHANGED <<activated, handling>>
    \/ CheckRead /\ UNCHANGED <<activated, handling>>
    \/ Close /\ UNCHANGED <<activated, handling>>

SpecLoad == InitLoad /\ [][NextLoad]_vars

\* ------------------------------------------------- the extension (activate)
\* The provider as activate() wires it: its methods are called only from the
\* handlers registered there.  A handler runs without interleaving up to its
\* return; checkAndCache returns to it at the call's first wait.

\* activate(): the provider is constructed, the syncReadOnly command is
\* registered and updateReadOnlySettings runs on the empty cache
InitExt ==
    /\ \E id \in ConfigIds :
          LET r == Loaded[id]
          IN  /\ regexPatterns = r.regexPatterns
              /\ gitAttributes = r.gitAttributes
              /\ excludePatterns = r.excludePatterns
              /\ maxSearchLines = r.maxSearchLines
              /\ maxSearchChars = r.maxSearchChars
              /\ boundTypes = r.boundTypes
              /\ cfgId = id
    /\ cache = <<>>
    /\ calls = EmptyBag
    /\ last = NoCall
    /\ done = [k \in FileKeys |-> {}]
    /\ pend = NoPend
    /\ activated = TRUE
    /\ readonlyInclude = updateReadOnlySettings(<<>>)
    /\ handling = NoUri
    /\ unclosed = FALSE
    /\ started = 0

\* onDidChangeConfiguration, the event affecting 'autodetectGenerated':
\* provider.refresh(); updateReadOnlySettings(provider)
OnDidChangeConfiguration(id) ==
    /\ handling = NoUri
    /\ refresh(id)
    /\ readonlyInclude' = updateReadOnlySettings(cache')
    /\ UNCHANGED <<activated, handling>>

\* watcher.onDidChange / onDidCreate: provider.update(uri), and next
\* provider.checkAndCache(uri)
OnDidChange(u) ==
    /\ handling = NoUri
    /\ BagCardinality(calls) < MaxInflight
    /\ update(u)
    /\ handling' = u
    /\ UNCHANGED <<activated, readonlyInclude>>

\* the handler of onDidChange / onDidCreate goes on: provider.checkAndCache(uri)
OnDidChangeCheck ==
    /\ handling # NoUri
    /\ checkAndCache(handling)
    /\ UNCHANGED started
    /\ handling' = NoUri
    /\ UNCHANGED activated

\* watcher.onDidDelete: provider.update(uri); updateReadOnlySettings(provider)
OnDidDelete(u) ==
    /\ handling = NoUri
    /\ update(u)
    /\ readonlyInclude' = updateReadOnlySettings(cache')
    /\ UNCHANGED <<activated, handling>>

\* onDidChangeActiveTextEditor with an editor (and the visible editors at
\* activation): provider.checkAndCache(editor.document.uri)
OnDidChangeActiveTextEditor(u) ==
    /\ handling = NoUri
    /\ checkAndCache(u)
    /\ UNCHANGED started
    /\ UNCHANGED <<activated, handling>>

\* a suspended call resumes, between two handlers
Resume ==
    /\ handling = NoUri
    /\ Git \/ ReadFile \/ Open \/ Read \/ Close
    /\ UNCHANGED <<activated, handling>>

ConfigurationChanged == \E id \in ConfigIds : OnDidChangeConfiguration(id)
FileChanged == \E u \in Uris : OnDidChange(u)
FileDeleted == \E u \in Uris : OnDidDelete(u)
EditorChanged == \E u \in Uris : OnDidChangeActiveTextEditor(u)

NextExt ==
    \/ ConfigurationChanged
    \/ FileChanged
    \/ OnDidChangeCheck
    \/ FileDeleted
    \/ EditorChanged
    \/ Resume

SpecExt == InitExt /\ [][NextExt]_vars

\* ------------------------------------------------------- reading a step

Key(u) == UriToString(u)

\* this step resumes the suspended call and the call returns: the call
\* leaves the suspended calls (no other step takes a call away)
Ends(call) == BagIn(call, calls) /\ calls' = calls (-) SetToBag({call})

\* this step resumes the suspended call at a point where it reads a rule field
ResumesReadingRules(call) ==
    \/ \E o \in GitOutcomes : GitCallback(call, o)
    \/ \E content \in Contents : ReadFileDone(call, TRUE, content)
    \/ OpenDone(call, TRUE)
    \/ CloseDone(call, TRUE)

\* some configured exclusion pattern compiles and matches the path of u
MatchesSomeExclusion(patterns, u) ==
    \E i \in 1..Len(patterns) :
        LET regex == NewRegExp(WildcardToRegex(patterns[i]))
        IN  regex.ok /\ RegexTest(regex, RelativePath(u))

\* under the loaded rules no check can match u, whatever git and the file hold
NoRuleCanMatch(u) ==
    \/ ExclusionCheck(excludePatterns, u) = "excluded"
    \/ /\ ExclusionCheck(excludePatterns, u) = "pass"
       /\ Len(gitAttributes) = 0
       /\ Len(regexPatterns) = 0

\* the part s[j..e] of the text (empty when e = j - 1) is matched, as a whole,
\* by the pattern elements toks[i..]
RECURSIVE Occurrence(_, _, _, _, _)
Occurrence(toks, i, s, j, e) ==
    IF i > Len(toks) THEN j = e + 1
    ELSE IF toks[i].star
         THEN \E k \in 0..(e - j + 1) :
                 /\ \A m \in j..(j + k - 1) : TokMatch(toks[i], s[m])
                 /\ Occurrence(toks, i + 1, s, j + k, e)
         ELSE /\ j <= e
              /\ TokMatch(toks[i], s[j])
              /\ Occurrence(toks, i + 1, s, j + 1, e)

\* the line (from 1) that position p of the text is on
LineOf(s, p) == 1 + Cardinality({q \in 1..(p - 1) : s[q] = NL})

\* the pattern has an occurrence in the text that lies on its first m lines
\* (anywhere when m = 0)
OccursInLines(regex, s, m) ==
    \E j \in 1..(Len(s) + 1) : \E e \in (j - 1)..Len(s) :
        /\ Occurrence(regex.toks, 1, s, j, e)
        /\ m > 0 => \A q \in j..e : LineOf(s, q) <= m

\* ------------------------------------------------------------------ claims

\* C1: every entry of the cache was computed under the RuleSet that is loaded:
\* refresh empties the cache, so this is that every call that writes the cache
\* started under the configuration loaded when it writes.
C1_CacheUnderLoadedRules ==
    [][\A call \in BagToSet(calls) : Ends(call) => ~call.old]_vars

\* C2 as stated: once a call on a file identity has completed with v and
\* neither update(identity) nor refresh() has run since, a later checkAndCache on
\* it is answered from the cache with v, with no query, scan or signal.
C2_RepeatReturnsFirstValue ==
    [][\A u \in FileUris :
          checkAndCache(u) /\ done[Key(u)] # {}
          => /\ last' = Settled("resolved", last'.result, TRUE, 0)
             /\ \A v \in done[Key(u)] : last'.result = v
             /\ calls' = calls]_vars

\* C2 as amended: the same for a call that completed while no other call on the
\* identity was suspended.  A call that returns while none other is suspended,
\* from a wait or without having waited, leaves its value in the cache; from
\* then on, until update(identity) or refresh(), the entry keeps that value, no
\* call on the identity is suspended, and checkAndCache returns the entry with
\* no query, scan or signal.
C2_QuietRepeatReturnsSame ==
    [][\A u \in FileUris :
          /\ \A call \in CallsOn(calls, u) :
                Ends(call) /\ CallsOn(calls', u) = {}
                => /\ CacheHas(cache', Key(u))
                   /\ last' = Settled("resolved", CacheGet(cache', Key(u)), FALSE,
                                      IF CacheGet(cache', Key(u)) THEN 1 ELSE 0)
          /\ ~CacheHas(cache, Key(u)) /\ CallsOn(calls, u) = {}
             => (/\ checkAndCache(u)
                 /\ calls' = calls
                 /\ last'.outcome = "resolved"
                 => /\ CacheHas(cache', Key(u))
                    /\ CacheGet(cache', Key(u)) = last'.result)
          /\ CacheHas(cache, Key(u)) /\ CallsOn(calls, u) = {}
             => /\ checkAndCache(u)
                   => /\ last' = Settled("resolved", CacheGet(cache, Key(u)), TRUE, 0)
                      /\ calls' = calls
                      /\ cache' = cache
                /\ \/ /\ CacheHas(cache', Key(u))
                      /\ CacheGet(cache', Key(u)) = CacheGet(cache, Key(u))
                      /\ CallsOn(calls', u) = {}
                   \/ Refresh
                   \/ update(u)]_vars

\* C2 witness: a call was answered true from the cache while nothing is suspended
C2_Witness ==
    /\ last.op = "check" /\ last.hit /\ last.result
    /\ calls = EmptyBag
    /\ \E u \in FileUris : CacheHas(cache, Key(u)) /\ done[Key(u)] = {TRUE}

\* C3: the first checkAndCache(identity) that starts after update(identity)
\* runs the check sequence, it is not answered from the cache.
C3_UpdateThenRecompute ==
    [][\A u \in FileUris :
          checkAndCache(u) /\ pend = PendUpdate(Key(u))
          => ~CacheHas(cache, Key(u))]_vars

\* C4: checkAndCache resolves with a boolean, it never rejects.
C4_NeverRejects == last.op = "check" => last.outcome = "resolved"

\* C5: a checkAndCache that misses the cache on an identity whose path matches
\* a configured exclusion pattern returns false and starts no query and no scan.
C5_ExclusionPrecedence ==
    [][\A u \in FileUris :
          /\ checkAndCache(u)
          /\ ~CacheHas(cache, Key(u))
          /\ MatchesSomeExclusion(excludePatterns, u)
          => /\ last' = Settled("resolved", FALSE, FALSE, 0)
             /\ calls' = calls]_vars

\* C6: checkAndCache on an identity that matches a configured exclusion
\* pattern returns false even when the cache holds true for it.
C6_ExclusionBeforeCache ==
    [][\A u \in FileUris :
          /\ checkAndCache(u)
          /\ MatchesSomeExclusion(excludePatterns, u)
          /\ CacheHas(cache, Key(u)) /\ CacheGet(cache, Key(u))
          => last'.outcome = "resolved" /\ ~last'.result]_vars

\* C7: no call starts a git query while gitAttributes is empty, none starts a
\* file scan while regexPatterns is empty, and with both empty every
\* checkAndCache that settles returns false.
C7_EmptyRuleSkip ==
    [][/\ \A c \in BagToSet(calls') :
             (c \notin BagToSet(calls) /\ c.pc = "git") => Len(gitAttributes) > 0
       /\ \A c \in BagToSet(calls') :
             (c \notin BagToSet(calls) /\ c.pc \in {"open", "readFile"})
             => Len(regexPatterns) > 0
       /\ \A u \in Uris :
             checkAndCache(u) /\ Len(gitAttributes) = 0 /\ Len(regexPatterns) = 0
             => last'.outcome = "resolved" /\ ~last'.result /\ calls' = calls]_vars

\* C8, the order of the steps: a call that misses the cache evaluates the
\* exclusion patterns and then waits for the query or, with no attribute
\* configured, for the scan; a suspended call goes on only from the query to
\* the scan and, within the scan, from open to read to close.  So no call
\* issues a second query, a second scan, or a query after its scan.
C8_StepsInOrder ==
    /\ \A c \in BagToSet(calls') :
          calls' = calls (+) SetToBag({c})
          => /\ c.pc \in {"git", "open", "readFile"}
             /\ c.pc = "git" <=> Len(gitAttributes) > 0
             /\ ExclusionCheck(excludePatterns, c.uri) = "pass"
             /\ checkAndCache(c.uri)
    /\ \A call \in BagToSet(calls) : \A c \in BagToSet(calls') :
          /\ cfgId' = cfgId
          /\ calls' # calls
          /\ calls' = (calls (-) SetToBag({call})) (+) SetToBag({c})
          => /\ c.uri = call.uri
             /\ <<call.pc, c.pc>> \in {<<"git", "open">>, <<"git", "readFile">>,
                                       <<"open", "read">>, <<"read", "close">>}

\* C8, the short circuits: a step in which a call starts to wait (for the
\* query or the scan) is not one where an exclusion pattern matched its path,
\* and a step that resumes a call from the query and does not end it (the scan
\* starts) is not one where the query reported a truthy attribute.
C8_ShortCircuit ==
    /\ \A c \in BagToSet(calls') :
          calls' = calls (+) SetToBag({c})
          => ~MatchesSomeExclusion(excludePatterns, c.uri)
    /\ \A call \in BagToSet(calls) :
          call.pc = "git" /\ calls' # calls (-) SetToBag({call})
          => ~(\E o \in GitOutcomes :
                  GitCallback(call, o) /\ GitVerdict(gitAttributes, o))

\* C8: precedence and short-circuit of one classification.
C8_PrecedenceShortCircuit == [][C8_StepsInOrder /\ C8_ShortCircuit]_vars

\* C8 witness: a call that started under the loaded rules, which configure an
\* attribute, has had its query answered and has read the file
C8_Witness ==
    \E c \in BagToSet(calls) :
        c.pc = "close" /\ ~c.old /\ Len(gitAttributes) > 0 /\ Len(c.text) > 0

\* C9: the rule fields one call uses all come from one RuleSet: a suspended
\* call never resumes to read a rule field after refresh replaced the
\* configuration it started under.
C9_OneRuleSetPerCall ==
    [][\A call \in BagToSet(calls) : ResumesReadingRules(call) => ~call.old]_vars

\* C10: when refresh found the identity cached true and loaded rules none of
\* which can match it, the next checkAndCache on it recomputes and returns false.
C10_ReloadRecomputes ==
    [][\A u \in FileUris :
          checkAndCache(u) /\ pend = PendReload(Key(u)) /\ NoRuleCanMatch(u)
          => /\ ~CacheHas(cache, Key(u))
             /\ last' = Settled("resolved", FALSE, FALSE, 0)]_vars

\* C11: a call that computes true on a cache miss issues the syncReadOnly
\* command exactly once; a call that computes false, a call answered from the
\* cache and a call on a non-file identity issue it zero times.
C11_SignalOnComputedTrueOnly ==
    [][/\ \A call \in BagToSet(calls) :
             Ends(call)
             => /\ ~last'.hit
                /\ last'.signals = IF last'.result THEN 1 ELSE 0
       /\ \A u \in Uris :
             checkAndCache(u) /\ calls' = calls
             => /\ last'.signals = IF last'.outcome = "resolved" /\ last'.result
                                       /\ ~CacheHas(cache, Key(u))
                                    THEN 1 ELSE 0
                /\ u \notin FileUris => last'.signals = 0
                /\ CacheHas(cache, Key(u)) => last'.hit /\ last'.signals = 0]_vars

\* C11 witness: a call computed true on a miss and issued the command once
C11_Witness ==
    /\ last.op = "check" /\ last.outcome = "resolved"
    /\ last.result /\ ~last.hit /\ last.signals = 1

\* C12: the set pushed to files.readonlyInclude never keeps a file that is no
\* longer cached as generated: between handlers, a file in the pushed set is
\* cached true, or its entry was invalidated and a classification of it is
\* still suspended; it is never one the cache holds false for.
C12_ResyncOnTrueToFalse ==
    handling = NoUri
    => \A u \in FileUris :
          RelativePath(u) \in readonlyInclude
          => \/ CacheHas(cache, Key(u)) /\ CacheGet(cache, Key(u))
             \/ ~CacheHas(cache, Key(u)) /\ CallsOn(calls, u) # {}

\* C13: checkAndCache on an identity whose scheme is not 'file' returns false,
\* starts no query and no read, issues no signal and leaves the cache
\* unchanged; no cache entry ever has a non-file key.
C13_NonFileWithoutEffect ==
    [][/\ \A u \in Uris \ FileUris :
             checkAndCache(u)
             => /\ last' = Settled("resolved", FALSE, FALSE, 0)
                /\ calls' = calls
                /\ cache' = cache
       /\ \A i \in 1..Len(cache') : cache'[i].key \in FileKeys]_vars

\* C13 witness: under the fixture defaults a call returned false without a
\* cache hit while nothing is cached and nothing is suspended
C13_Witness ==
    /\ last = Settled("resolved", FALSE, FALSE, 0)
    /\ cfgId = 1
    /\ cache = <<>>
    /\ calls = EmptyBag

\* C14: classification of a non-file identity starts no query but performs the
\* content check: with a content pattern loaded, checkAndCache on it does not
\* return before the payload is read (the call waits for the read).
C14_NonFileContentCheck ==
    [][\A u \in Uris \ FileUris :
          checkAndCache(u) /\ Len(regexPatterns) > 0
          => /\ calls' # calls
             /\ \A c \in BagToSet(calls') : c \notin BagToSet(calls) => c.pc # "git"]_vars

\* C15: with maxSearchChars = N > 0 the scan requests N bytes, keeps at most N
\* bytes, which are the first bytes of the file, and tests nothing else; with
\* maxSearchLines = M > 0 a scan that answers true has a pattern occurrence on
\* the first M lines of those bytes.
C15_BoundRespect ==
    [][/\ \A call \in BagToSet(calls) : \A c \in BagToSet(calls') :
             /\ call.pc = "open" /\ maxSearchChars > 0 /\ c \notin BagToSet(calls)
                => c.pc = "read" /\ c.size = maxSearchChars
             /\ call.pc = "read" /\ c \notin BagToSet(calls)
                => /\ c.pc = "close"
                   /\ Len(c.text) <= call.size
                   /\ \E content \in ScanContents :
                         /\ ReadDone(call, TRUE, content)
                         /\ c.text = SubSeq(content, 1, Len(c.text))
       /\ \A call \in BagToSet(calls) :
             call.pc = "close" /\ Ends(call) /\ last'.result
             => \E i \in 1..Len(regexPatterns) :
                   OccursInLines(regexPatterns[i], DecodeUtf8(call.text),
                                 maxSearchLines)]_vars

\* C15 witness: under bounds of 4 bytes and 1 line a scan has read 4 bytes
\* whose second line holds the marker
C15_Witness ==
    /\ maxSearchChars = 4 /\ maxSearchLines = 1
    /\ \E c \in BagToSet(calls) :
          c.pc = "close" /\ c.text = <<"x", NL>> \o Marker

\* C16: with maxSearchChars = 0 the scan reads the file whole (it never takes
\* the bounded read), and with maxSearchLines = 0 the text is tested uncut:
\* with both 0 the scan answers true exactly when a loaded pattern occurs
\* somewhere in the file.
C16_ZeroMeansUnbounded ==
    [][/\ maxSearchChars = 0
          => \A c \in BagToSet(calls') : c.pc \notin {"open", "read", "close"}
       /\ \A call \in BagToSet(calls) :
             /\ call.pc = "readFile" /\ maxSearchLines = 0 /\ Ends(call)
                => \A content \in ScanContents :
                      ReadFileDone(call, TRUE, content)
                      => last'.result =
                            (\E i \in 1..Len(regexPatterns) :
                                OccursInLines(regexPatterns[i],
                                              DecodeUtf8(content), 0))
             /\ call.pc = "close" /\ maxSearchLines = 0 /\ Ends(call)
                => /\ CloseDone(call, TRUE)
                      => last'.result =
                            (\E i \in 1..Len(regexPatterns) :
                                OccursInLines(regexPatterns[i],
                                              DecodeUtf8(call.text), 0))
                   /\ CloseDone(call, FALSE) => ~last'.result]_vars

\* C16 witness: with both bounds 0 and no attribute configured a scan of the
\* whole file answered true
C16_Witness ==
    /\ maxSearchChars = 0 /\ maxSearchLines = 0
    /\ Len(gitAttributes) = 0 /\ Len(regexPatterns) > 0
    /\ last.op = "check" /\ last.outcome = "resolved" /\ last.result /\ ~last.hit
    /\ CacheHas(cache, Key(UriIn)) /\ CacheGet(cache, Key(UriIn))

\* the k-th entry of the cache whose value is true
NthTrue(c, k) ==
    CHOOSE i \in 1..Len(c) :
        c[i].val /\ Cardinality({j \in 1..i : c[j].val}) = k

\* the keys of the cache c that are also in d, in the order of c
RECURSIVE KeysKept(_, _)
KeysKept(c, d) ==
    IF c = <<>> THEN <<>>
    ELSE (IF CacheHas(d, Head(c).key) THEN <<Head(c).key>> ELSE <<>>)
         \o KeysKept(Tail(c), d)

\* C17: getGeneratedFiles() lists one path for each cache entry whose value
\* is true and none for the others, in the order of the cache, which is the
\* order of insertion (no step reorders the kept keys, a new key goes last);
\* a path is relative to the workspace folder when the file has one and the
\* unchanged absolute path otherwise.
C17_EnumerateGenerated ==
    [][/\ LET g == getGeneratedFiles(cache')
              n == Cardinality({i \in 1..Len(cache') : cache'[i].val})
          IN  /\ Len(g) = n
              /\ \A k \in 1..n :
                    LET u == UriParse(cache'[NthTrue(cache', k)].key)
                    IN  IF HasWorkspaceFolder(u)
                        THEN u.folder \o <<"/">> \o g[k] = u.fsPath
                        ELSE g[k] = u.fsPath
       /\ LET kept == KeysKept(cache, cache')
          IN  /\ Len(cache') >= Len(kept)
              /\ \A i \in 1..Len(kept) : cache'[i].key = kept[i]
              /\ \A i \in 1..Len(cache') : \A j \in 1..Len(cache') :
                    cache'[i].key = cache'[j].key => i = j]_vars

\* C17 witness: the cache holds the file outside any folder, then the file in
\* the folder /w, both true, and the list is the absolute path of the first
\* and the relative path of the second
C17_Witness ==
    /\ Len(cache) = 2
    /\ cache[1] = [key |-> Key(UriOut), val |-> TRUE]
    /\ cache[2] = [key |-> Key(UriIn), val |-> TRUE]
    /\ getGeneratedFiles(cache) = <<UriOut.fsPath, <<"g", ".", "t">>>>

\* a line, given as its fields, has at least three of them, the second is a
\* configured key and the third is set or true (white space around a field
\* does not count)
FieldsMatch(keys, fields) ==
    /\ Len(fields) >= 3
    /\ \E k \in 1..Len(keys) : keys[k] = Trim(fields[2])
    /\ \/ Trim(fields[3]) = <<"s", "e", "t">>
       \/ Trim(fields[3]) = <<"t", "r", "u", "e">>

\* C18: when git check-attr succeeds, the metadata check answers true exactly
\* when some output line has at least three ': '-separated fields, its
\* attribute field is a configured key and its value field is set or true;
\* a line of fewer fields is skipped and the lines after it still count;
\* unset, false and unspecified never match.  (Only attributes are
\* configured, so the call's result is the metadata check's answer.)
C18_MetadataVerdict ==
    [][\A call \in BagToSet(calls) :
          call.pc = "git" /\ Len(regexPatterns) = 0
          => \A ls \in GitLineSeqs : \A final \in BOOLEAN :
                GitCallback(call, [err |-> FALSE, stdout |-> RenderLines(ls, final)])
                => /\ Ends(call)
                   /\ last'.outcome = "resolved"
                   /\ last'.result = (\E i \in 1..Len(ls) :
                                         FieldsMatch(gitAttributes, ls[i]))]_vars

\* C18 witness: with the attributes h and g configured and no content
\* pattern, a classification was answered true by the metadata check
C18_Witness ==
    /\ gitAttributes = <<<<"h">>, <<"g">>>> /\ Len(regexPatterns) = 0
    /\ last.op = "check" /\ last.outcome = "resolved" /\ last.result /\ ~last.hit
    /\ calls = EmptyBag

\* the call ends resolved with false and leaves false in the cache
EndsFalse(call) ==
    /\ Ends(call)
    /\ last' = Settled("resolved", FALSE, FALSE, 0)
    /\ CacheHas(cache', Key(call.uri)) /\ ~CacheGet(cache', Key(call.uri))

\* C19: a failure below is a non-match and stops nothing.  When git
\* check-attr fails, the metadata check is false and the content check runs:
\* the call goes on to read the file (or ends false when no content pattern
\* is loaded), and a call that was reading ends resolved, with the content
\* check's answer.  When the file cannot be opened or read, the call ends
\* resolved with false.
C19_FailureIsNonMatch ==
    [][\A call \in BagToSet(calls) :
          /\ call.pc = "git" /\ GitCallback(call, [err |-> TRUE, stdout |-> <<>>])
             => IF Len(regexPatterns) = 0 THEN EndsFalse(call)
                ELSE \E pc \in {"open", "readFile"} :
                        calls' = (calls (-) SetToBag({call}))
                                 (+) SetToBag({[call EXCEPT !.pc = pc,
                                                            !.exec = NoExec]})
          /\ call.pc \in {"open", "read", "close", "readFile"} /\ Ends(call)
             => last'.outcome = "resolved"
          /\ call.pc = "open" /\ OpenDone(call, FALSE) => EndsFalse(call)
          /\ call.pc = "read" /\ ReadDone(call, FALSE, <<>>) => EndsFalse(call)
          /\ call.pc = "close" /\ CloseDone(call, FALSE) => EndsFalse(call)
          /\ call.pc = "readFile" /\ ReadFileDone(call, FALSE, <<>>)
             => EndsFalse(call)]_vars

\* C19 witness: with an attribute and a content pattern loaded, a call whose
\* metadata check did not answer true read the file and ended with false
C19_Witness ==
    /\ Len(gitAttributes) > 0 /\ Len(regexPatterns) > 0 /\ Len(excludePatterns) = 0
    /\ last = Settled("resolved", FALSE, FALSE, 0)
    /\ CacheHas(cache, Key(UriOut)) /\ ~CacheGet(cache, Key(UriOut))
    /\ calls = EmptyBag /\ cfgId = 1

\* the k-th smallest member of the set S of indices
NthIn(S, k) ==
    CHOOSE i \in S : Cardinality({j \in S : j <= i}) = k

\* C20: the loaded content patterns are the configured pattern strings that
\* compile, each compiled, in the configured order; each string that does not
\* compile is left out with one diagnostic, whatever its place, and the
\* others stay.  (Construction under every configuration ends: the rules of
\* every state are those of a loadConfig that returned.)
C20_BadPatternsIsolated ==
    LET ps == Get(cfgId, "regexPatterns", <<>>)
        good == {i \in 1..Len(ps) : NewRegExp(ps[i]).ok}
        bad == (1..Len(ps)) \ good
        diag == Diagnostics(ps)
    IN  /\ Len(regexPatterns) = Cardinality(good)
        /\ \A k \in 1..Len(regexPatterns) :
              regexPatterns[k] = NewRegExp(ps[NthIn(good, k)])
        /\ Len(diag) = Cardinality(bad)
        /\ \A k \in 1..Len(diag) : diag[k] = ps[NthIn(bad, k)]

\* C20 witness: the configured patterns are a string that does not compile
\* between two that do; both others are loaded and a scan under them
\* answered true
C20_Witness ==
    /\ Get(cfgId, "regexPatterns", <<>>) = <<<<"x", ".", "@">>, <<"[">>, Marker>>
    /\ Len(regexPatterns) = 2
    /\ last.op = "check" /\ last.outcome = "resolved" /\ last.result /\ ~last.hit

\* the value loadConfig leaves in a bound field is the number n
HoldsNumber(type, num, n) == type = "number" /\ num = n

\* C21: after loadConfig each of maxSearchLines and maxSearchChars holds the
\* configured value when that is a non-negative integer, and the default (5,
\* 1024) when the value is absent or of a wrong type; so the scan of a system
\* whose maxSearchChars is absent or of a wrong type never reads a file whole.
C21_NumericBoundDefaults ==
    LET l == TypeOf(cfgId, "maxSearchLines")
        c == TypeOf(cfgId, "maxSearchChars")
    IN  /\ HoldsNumber(boundTypes.lines, maxSearchLines,
                       IF l = "number" THEN cfgId.maxSearchLines
                       ELSE DefaultMaxSearchLines)
        /\ HoldsNumber(boundTypes.chars, maxSearchChars,
                       IF c = "number" THEN cfgId.maxSearchChars
                       ELSE DefaultMaxSearchChars)
        /\ c # "number" => \A call \in BagToSet(calls) : call.pc # "readFile"

\* C22: a metadata query is one process call: the program git with the
\* arguments check-attr, every configured key, '--' and the file's path, run
\* in the file's workspace folder, or in the file's own directory when it has
\* none, with a timeout of one second; no process is called when no
\* attribute is configured.
C22_OracleInvocation ==
    [][\A u \in FileUris :
          checkAndCache(u) /\ calls = EmptyBag /\ cache = <<>>
          => IF Len(gitAttributes) = 0
             THEN \A c \in BagToSet(calls') : c.exec = NoExec
             ELSE \E c \in BagToSet(calls') :
                     /\ calls' = SetToBag({c})
                     /\ c.pc = "git" /\ c.uri = u
                     /\ c.exec.file = "git"
                     /\ Len(c.exec.args) = Len(gitAttributes) + 3
                     /\ c.exec.args[1] = <<"check-attr">>
                     /\ \A i \in 1..Len(gitAttributes) :
                           c.exec.args[i + 1] = gitAttributes[i]
                     /\ c.exec.args[Len(gitAttributes) + 2] = <<"--">>
                     /\ c.exec.args[Len(gitAttributes) + 3] = u.fsPath
                     /\ IF HasWorkspaceFolder(u) THEN c.exec.cwd = u.folder
                        ELSE \E name \in {SubSeq(u.fsPath, i, Len(u.fsPath)) :
                                              i \in 1..Len(u.fsPath)} :
                                /\ ~Includes(name, "/")
                                /\ c.exec.cwd \o <<"/">> \o name = u.fsPath
                     /\ c.exec.timeout = 1000]_vars

\* C22 witness: with the keys h and g configured, the query for the file
\* outside any workspace folder runs in the file's directory /o
C22_Witness ==
    \E c \in BagToSet(calls) :
        /\ c.pc = "git" /\ c.uri = UriOut
        /\ c.exec.args = <<<<"check-attr">>, <<"h">>, <<"g">>, <<"--">>, UriOut.fsPath>>
        /\ c.exec.cwd = <<"/", "o">>

\* C23: two checkAndCache calls on one file identity that overlap (the second
\* starts while the first is suspended and the cache has no entry) both run
\* the check sequence and both write the cache: the second is not rejected,
\* it is suspended or returns having written its value, and a call that
\* returns from a wait leaves its value in the cache, so the entry is that of
\* the call that finished last.  While no file, no answer of git and, during
\* the overlap, no rule changes, both return the same value: a call that no
\* reload has overtaken and that finds an entry of its identity when it
\* returns, returns the value of that entry.
C23_SameIdentityRace ==
    [][/\ \A u \in FileUris :
             checkAndCache(u) /\ CallsOn(calls, u) # {} /\ ~CacheHas(cache, Key(u))
             => \/ calls' # calls
                \/ /\ last'.outcome = "resolved"
                   /\ CacheHas(cache', Key(u))
                   /\ CacheGet(cache', Key(u)) = last'.result
       /\ \A call \in BagToSet(calls) :
             Ends(call)
             => /\ last'.outcome = "resolved"
                /\ CacheHas(cache', Key(call.uri))
                /\ CacheGet(cache', Key(call.uri)) = last'.result
                /\ ~call.old /\ CacheHas(cache, Key(call.uri))
                   => last'.result = CacheGet(cache, Key(call.uri))]_vars

\* C24: in the byte-bounded scan every handle that a successful open gave is
\* closed before the scan returns, on the success path and on every failure
\* path: no scan has returned leaving its handle open.
C24_HandleReleased == ~unclosed

\* the text up to, and without, its m-th line break; the whole text when it
\* has fewer, or when m = 0
RefLines(text, m) ==
    LET breaks == {i \in 1..Len(text) : text[i] = NL}
        cut == {i \in breaks : Cardinality({j \in breaks : j <= i}) = m}
    IN  IF m = 0 \/ cut = {} THEN text
        ELSE SubSeq(text, 1, (CHOOSE i \in cut : TRUE) - 1)

\* C25: for every content and bounds N = maxSearchChars > 0, M = maxSearchLines
\* the text tested is the first min(N, length) bytes of the content, the bytes
\* read and no padding, cut when M > 0 to its first M lines, a partial last
\* line kept; the bounded read keeps exactly those bytes and the verdict at
\* close is that of the patterns on that text; and a source that is no file
\* gives the same text for the same bytes.
C25_ScannedTextIsReference ==
    [][/\ maxSearchChars > 0
          => \A content \in ScanContents :
                LET n == Min(maxSearchChars, Len(content))
                    ref == RefLines(DecodeUtf8(SubSeq(content, 1, n)), LineLimit)
                IN  /\ FileScanText(content, maxSearchChars, LineLimit) = ref
                    /\ PayloadScanText(content, maxSearchChars, LineLimit) = ref
       /\ \A call \in BagToSet(calls) :
             /\ call.pc = "read"
                => \A content \in ScanContents :
                      ReadDone(call, TRUE, content)
                      => \E c \in BagToSet(calls') :
                            c.text = SubSeq(content, 1, Min(call.size, Len(content)))
             /\ call.pc = "close" /\ CloseDone(call, TRUE)
                => last'.result =
                      (\E i \in 1..Len(regexPatterns) :
                          RegexTest(regexPatterns[i],
                                    RefLines(DecodeUtf8(call.text), LineLimit)))]_vars


\* the keys of the cache c, in its order
KeysOf(c) == [i \in 1..Len(c) |-> c[i].key]

\* the cache d is the cache c without its entry of key k, if it has one:
\* every other entry is kept, with its value and in its place
OnlyEntryRemoved(c, d, k) ==
    /\ ~CacheHas(d, k)
    /\ Len(d) >= Len(c) - 1
    /\ KeysOf(d) = KeysKept(c, d)
    /\ \A i \in 1..Len(c) :
          c[i].key # k => /\ CacheHas(d, c[i].key)
                          /\ CacheGet(d, c[i].key) = c[i].val

\* C26: update(identity) removes at most the entry of that identity and
\* leaves every other cache entry and the rule fields unchanged; refresh()
\* leaves the cache empty, so that the getGeneratedFiles() that follows it
\* lists nothing; a getGeneratedFiles() changes neither the cache nor the
\* rule fields (the handlers that call it after update leave the cache as
\* update left it, and list it)
C26_InvalidationFrame ==
    [][/\ \A u \in Uris :
            OnDidChange(u) \/ OnDidDelete(u)
            => /\ OnlyEntryRemoved(cache, cache', Key(u))
               /\ rules' = rules
       /\ \A u \in Uris :
            OnDidDelete(u)
            => readonlyInclude' =
                  {RelativePath(UriParse(cache'[i].key)) :
                      i \in {j \in 1..Len(cache') : cache'[j].val}}
       /\ \A id \in ConfigIds :
            OnDidChangeConfiguration(id)
            => /\ cache' = <<>>
               /\ getGeneratedFiles(cache') = <<>>
               /\ readonlyInclude' = {}]_vars

\* a deletion of the first file has left the entry of the second one, a
\* generated file, cached and listed
C26_Witness ==
    /\ pend = PendUpdate(Key(UriIn))
    /\ ~CacheHas(cache, Key(UriIn))
    /\ CacheHas(cache, Key(UriOut)) /\ CacheGet(cache, Key(UriOut))
    /\ readonlyInclude = {RelativePath(UriOut)}


\* C27: every checkAndCache call completes, whatever update(), refresh() and
\* other checkAndCache calls interleave with it, when every wait settles: a
\* call that is suspended ends, so that no call stays suspended for ever (a
\* caller of finitely many calls sees all of them ended), and it ends with
\* the promise resolved
C27_EveryCallCompletes ==
    /\ (calls # EmptyBag) ~> (calls = EmptyBag)
    /\ [][\A call \in BagToSet(calls) :
             Ends(call) => last'.op = "check" /\ last'.outcome = "resolved"]_vars

\* the caller has made all its calls, one of them was suspended and has
\* ended after a refresh that replaced the configuration it started under
C27_Witness ==
    /\ started = MaxStarts
    /\ calls = EmptyBag
    /\ last # NoCall /\ last.outcome = "resolved" /\ ~last.hit
    /\ pend.kind = "reload"
    /\ \E k \in FileKeys : done[k] # {}


\* the text s as a whole is an instance of the wildcard pattern p: '*' stands
\* for any sequence of characters, '?' for one character, any other symbol
\* for itself
RECURSIVE WildMatch(_, _)
WildMatch(p, s) ==
    IF Len(p) = 0 THEN Len(s) = 0
    ELSE IF p[1] = "*"
         THEN \E k \in 0..Len(s) : WildMatch(Tail(p), SubSeq(s, k + 1, Len(s)))
         ELSE /\ Len(s) > 0
              /\ p[1] = "?" \/ p[1] = s[1]
              /\ WildMatch(Tail(p), Tail(s))

\* some contiguous part of s is an instance of p
PartMatches(p, s) ==
    \E i \in 1..(Len(s) + 1) : \E j \in (i - 1)..Len(s) : WildMatch(p, SubSeq(s, i, j))

\* C28: with exclusion patterns made of literal symbols, '*' and '?', a
\* classification ends at the exclusions (false, no oracle query, no file
\* read) if and only if some contiguous part of the path (relative to the
\* workspace folder when there is one) is an instance of one of the patterns,
\* '*' standing for any sequence of characters, separators included, and '?'
\* for one character; the match is anchored at neither end
C28_ExclusionIsPartMatch ==
    [][\A u \in ExcludeUris :
          checkAndCache(u) /\ calls = EmptyBag /\ cache = <<>>
          => IF \E i \in 1..Len(excludePatterns) :
                   PartMatches(excludePatterns[i], RelativePath(u))
             THEN /\ calls' = EmptyBag
                  /\ last' = Settled("resolved", FALSE, FALSE, 0)
                  /\ cache' = <<[key |-> Key(u), val |-> FALSE]>>
             ELSE /\ \E c \in BagToSet(calls') :
                        c.uri = u /\ c.pc = "git" /\ calls' = SetToBag({c})
                  /\ cache' = <<>>]_vars

\* the pattern g*t, which is no prefix and no suffix of t/g/t and whose '*'
\* spans a separator, has excluded the file
C28_Witness ==
    /\ cfgId.excludePatterns = <<<<"g", "*", "t">>>>
    /\ calls = EmptyBag
    /\ last = Settled("resolved", FALSE, FALSE, 0)
    /\ \E u \in ExcludeUris :
          /\ RelativePath(u) = <<"t", "/", "g", "/", "t">>
          /\ cache = <<[key |-> Key(u), val |-> FALSE]>>


\* C29: the cache is written before the syncReadOnly command is issued: when a
\* checkAndCache call issues the command for an identity, the cache holds
\* true for that identity, so that getGeneratedFiles() at that moment lists
\* the file's path, and the handler of the command pushes it
C29_CacheWrittenBeforeSignal ==
    [][/\ \A call \in BagToSet(calls) :
             Ends(call) /\ last'.signals = 1
             => /\ CacheHas(cache', Key(call.uri))
                /\ CacheGet(cache', Key(call.uri))
                /\ \E i \in 1..Len(getGeneratedFiles(cache')) :
                      getGeneratedFiles(cache')[i] = RelativePath(call.uri)
                /\ activated => RelativePath(call.uri) \in readonlyInclude'
       /\ \A u \in Uris : checkAndCache(u) /\ calls' = calls => last'.signals = 0]_vars

\* a call in the activated extension has issued the command, and the path of
\* its file, cached true, is in the set pushed to files.readonlyInclude
C29_Witness ==
    /\ activated
    /\ last.op = "check" /\ last.signals = 1
    /\ \E u \in FileUris :
          /\ CacheHas(cache, Key(u)) /\ CacheGet(cache, Key(u))
          /\ readonlyInclude = {RelativePath(u)}
          /\ Len(cache) = 2

====
